---- MODULE Spec2Model ----
(***************************************************************************)
(* Model of delete.py: the R2BucketCleaner (list_all_objects,              *)
(* delete_objects_batch, filter_images, clean_bucket) and main's dispatch, *)
(* run against an S3-compatible store.                                     *)
(*                                                                         *)
(* Strings are sequences of one-character strings, so that lower(),        *)
(* endswith() and strip() are computed rather than assumed.  An object is  *)
(* represented by its Key (Size is only printed by the preview).           *)
(***************************************************************************)
EXTENDS Integers, Sequences, FiniteSets, TLC

(* ------------------------------ bounds -------------------------------- *)

\* The store serves a listing in at most MaxPages pages.
MaxPages == 3

\* 'MaxKeys': 1000 in the source (delete.py:51), scaled down: the most
\* entries the store puts in one page.
MaxKeys == 2

\* batch_size = 1000 in the source (delete.py:177), scaled down.
batch_size == 2

\* Cap on the number of list requests of one run (a history bound only: a
\* run against a store of at most MaxPages pages sends at most MaxPages).
MaxListRequests == MaxPages + 1

(* ------------------------------ strings ------------------------------- *)

Upper == <<"A","B","C","D","E","F","G","H","I","J","K","L","M",
           "N","O","P","Q","R","S","T","U","V","W","X","Y","Z">>

Lower == <<"a","b","c","d","e","f","g","h","i","j","k","l","m",
           "n","o","p","q","r","s","t","u","v","w","x","y","z">>

Whitespace == {" ", "\t", "\n", "\r"}

\* str.lower() on one character
lower_char(c) ==
    IF \E n \in 1..Len(Upper) : Upper[n] = c
    THEN Lower[CHOOSE n \in 1..Len(Upper) : Upper[n] = c]
    ELSE c

\* str.lower()
lower(s) == [n \in 1..Len(s) |-> lower_char(s[n])]

\* str.endswith(suffix)
endswith(s, suffix) ==
    /\ Len(suffix) <= Len(s)
    /\ SubSeq(s, Len(s) - Len(suffix) + 1, Len(s)) = suffix

RECURSIVE lstrip(_)
lstrip(s) ==
    IF s # <<>> /\ Head(s) \in Whitespace THEN lstrip(Tail(s)) ELSE s

RECURSIVE rstrip(_)
rstrip(s) ==
    IF s # <<>> /\ s[Len(s)] \in Whitespace
    THEN rstrip(SubSeq(s, 1, Len(s) - 1))
    ELSE s

\* str.strip()
strip(s) == rstrip(lstrip(s))

\* Python's seq[lo:hi] (0-based, hi exclusive, clipped to the length)
Slice(seq, lo, hi) ==
    SubSeq(seq, lo + 1, IF hi < Len(seq) THEN hi ELSE Len(seq))

Range(seq) == {seq[n] : n \in 1..Len(seq)}

RECURSIVE Flatten(_)
Flatten(seqs) ==
    IF seqs = <<>> THEN <<>> ELSE Head(seqs) \o Flatten(Tail(seqs))

RECURSIVE SumLen(_)
SumLen(seqs) ==
    IF seqs = <<>> THEN 0 ELSE Len(Head(seqs)) + SumLen(Tail(seqs))

(* ------------------------------- keys --------------------------------- *)

\* The keys a bucket may hold, in the store's listing order (byte order):
\* "A.PNG", "b.jpeg", "c.txt", "d/", "png".
KeyUniverse ==
    << <<"A",".","P","N","G">>,
       <<"b",".","j","p","e","g">>,
       <<"c",".","t","x","t">>,
       <<"d","/">>,
       <<"p","n","g">> >>

image_extensions ==
    { <<".","j","p","g">>, <<".","j","p","e","g">>, <<".","p","n","g">>,
      <<".","g","i","f">>, <<".","b","m","p">>, <<".","t","i","f","f">>,
      <<".","t","i","f">>, <<".","w","e","b","p">>, <<".","s","v","g">>,
      <<".","i","c","o">>, <<".","a","v","i","f">>, <<".","h","e","i","c">>,
      <<".","h","e","i","f">> }

\* is_image as it would be with the extensions' leading dot left out
is_image_without_dot(key) ==
    LET key_lower == lower(key)
    IN  \E ext \in image_extensions : endswith(key_lower, Tail(ext))

\* the test of filter_images' loop body
is_image(key) ==
    LET key_lower == lower(key)
    IN  \E ext \in image_extensions : endswith(key_lower, ext)

RECURSIVE filter_images(_)
filter_images(objects) ==
    IF objects = <<>> THEN <<>>
    ELSE (IF is_image(Head(objects)) THEN <<Head(objects)>> ELSE <<>>)
         \o filter_images(Tail(objects))

(* --------------------------- confirmation ----------------------------- *)

DELETE == <<"D","E","L","E","T","E">>

\* What the operator may type at the prompt.
Inputs ==
    { DELETE,
      <<" ">> \o DELETE \o <<" ">>,
      DELETE \o <<"\t">>,
      lower(DELETE),
      <<>>,
      <<"D","E","L"," ","E","T","E">>,
      <<"y">> }

\* confirm = input(...).strip()
confirm_of(typed) == strip(typed)

\* confirmed_by as it would be comparing case-insensitively
confirmed_ignoring_case(typed) == lower(confirm_of(typed)) = lower(DELETE)

\* the test "confirm != 'DELETE'" negated
confirmed_by(typed) == confirm_of(typed) = DELETE

(* ------------------------------- store -------------------------------- *)

None == 0

\* The continuation token the store hands out for page p (p >= 2); tokens
\* are opaque non-empty strings to the program.
TokenOf(p) == p

\* "if continuation_token:" (None is falsy, a token is not)
Truthy(token) == token # None

\* RequestToken as it would be with the token never put in the params
RequestWithoutToken(continuation_token) == None

\* params of one list_objects_v2 request: the token it carries, or None
RequestToken(continuation_token) ==
    IF Truthy(continuation_token) THEN continuation_token ELSE None

\* list_objects_v2 of the store: the page the request's token names
ListObjectsV2(pgs, token) ==
    LET p == IF token = None THEN 1 ELSE token
    IN  [ HasContents           |-> pgs[p] # <<>>,
          Contents              |-> pgs[p],
          IsTruncated           |-> p < Len(pgs),
          NextContinuationToken |-> IF p < Len(pgs) THEN TokenOf(p + 1)
                                    ELSE None ]

\* All ways to cut a listing into at most n pages of at most MaxKeys entries
\* (an empty page is a response without 'Contents').
RECURSIVE Paginations(_, _)
Paginations(listing, n) ==
    IF n = 0 THEN {}
    ELSE { <<SubSeq(listing, 1, k)>> :
             k \in {k \in 0..MaxKeys : k = Len(listing)} }
         \cup
         UNION { { <<SubSeq(listing, 1, k)>> \o rest :
                     rest \in Paginations(SubSeq(listing, k + 1, Len(listing)),
                                          n - 1) } :
                 k \in {k \in 0..MaxKeys : k <= Len(listing)} }

\* The keys of KeyUniverse chosen by the index set S, in listing order.
RECURSIVE Listing(_, _)
Listing(S, n) ==
    IF n > Len(KeyUniverse) THEN <<>>
    ELSE (IF n \in S THEN <<KeyUniverse[n]>> ELSE <<>>) \o Listing(S, n + 1)

Stores ==
    UNION { Paginations(Listing(S, 1), MaxPages) :
            S \in SUBSET (1..Len(KeyUniverse)) }

(* ---------------------------- command line ---------------------------- *)

\* argparse: exactly one of --dry-run, --delete-all, --delete-images is
\* given (a required mutually exclusive group); --images-only is optional.
Args ==
    { a \in [dry_run : BOOLEAN, delete_all : BOOLEAN,
             delete_images : BOOLEAN, images_only : BOOLEAN] :
        Cardinality({f \in {"dry_run", "delete_all", "delete_images"} : a[f]}) = 1 }

(* ------------------------------- state -------------------------------- *)

VARIABLES
    pc,                 \* where the run is
    args,               \* main: the parsed command line
    images_only,        \* clean_bucket's parameters
    dry_run,
    pages,              \* the store: the listing as it serves it, page by page
    bucket,             \* the store: the keys it holds
    continuation_token, \* list_all_objects' locals
    objects,
    list_requests,      \* the token each list request carried
    list_responses,     \* what the store answered to each
    all_objects,        \* clean_bucket's locals
    objects_to_delete,
    i,
    total_deleted,
    typed,              \* what the operator typed at the prompt, if prompted
    delete_requests,    \* the keys each delete request named
    batch_outcomes,     \* how the store answered each delete request
    confirmed_deletions,\* how many keys the store's responses list as 'Deleted'
    failed_batches,     \* the batch numbers reported as failed
    reports             \* the messages printed

vars == <<pc, args, images_only, dry_run, pages, bucket, continuation_token,
          objects, list_requests, list_responses, all_objects,
          objects_to_delete, i, total_deleted, typed, delete_requests,
          batch_outcomes, confirmed_deletions, failed_batches, reports>>

NotPrompted == <<"<no prompt>">>

Init ==
    /\ pc = "main"
    /\ args \in Args
    /\ images_only = FALSE
    /\ dry_run = FALSE
    /\ pages \in Stores
    /\ bucket = Range(Flatten(pages))
    /\ continuation_token = None
    /\ objects = <<>>
    /\ list_requests = <<>>
    /\ list_responses = <<>>
    /\ all_objects = <<>>
    /\ objects_to_delete = <<>>
    /\ i = 0
    /\ total_deleted = 0
    /\ typed = NotPrompted
    /\ delete_requests = <<>>
    /\ batch_outcomes = <<>>
    /\ confirmed_deletions = 0
    /\ failed_batches = {}
    /\ reports = {}

(* -------------------------------- main -------------------------------- *)

\* main's dispatch on the parsed arguments: the images_only and dry_run
\* it passes to clean_bucket.  (The run modelled is one whose credentials
\* are configured; with the placeholders left in, main returns before
\* any request.)
images_only_arg(a) ==
    IF a.dry_run THEN a.images_only
    ELSE IF a.delete_all THEN FALSE
    ELSE TRUE

dry_run_arg(a) == a.dry_run

Main ==
    /\ pc = "main"
    /\ images_only' = images_only_arg(args)
    /\ dry_run' = dry_run_arg(args)
    /\ pc' = "listing"
    /\ UNCHANGED <<args, pages, bucket, continuation_token, objects,
                   list_requests, list_responses, all_objects,
                   objects_to_delete, i, total_deleted, typed,
                   delete_requests, batch_outcomes, confirmed_deletions,
                   failed_batches, reports>>

\* What a request raises when it fails below the API (no connection, a
\* timeout): an exception of the client library that is not a ClientError.
\* Nothing in list_all_objects, delete_objects_batch or clean_bucket
\* catches it; main reports it and ends the run.  (The credentials are
\* passed to the client explicitly, so NoCredentialsError is not raised.)
EscapingErrors == {"ConnectionError"}

\* main's except clauses
main_report(e) ==
    IF e = "NoCredentialsError" THEN "credentials not found"
    ELSE "unexpected error"

(* -------------------------- list_all_objects --------------------------- *)

\* "if not response.get('IsTruncated', False): break"
last_page(response) == ~response.IsTruncated

\* "continuation_token = response.get('NextContinuationToken')"
next_token(response) == response.NextContinuationToken

\* extended as it would be assigning the page instead of extending
replaced(objs, response) ==
    IF response.HasContents THEN response.Contents ELSE objs

\* "if 'Contents' in response: objects.extend(response['Contents'])"
extended(objs, response) ==
    IF response.HasContents THEN objs \o response.Contents ELSE objs

\* list_error_result as it would be returning what was accumulated
partial_result(objs) == objs

\* "except ClientError: ... return []"
list_error_result(objs) == <<>>

\* One iteration of the while loop whose request the store answers.
ListPage ==
    /\ pc = "listing"
    /\ Len(list_requests) < MaxListRequests
    /\ LET token    == RequestToken(continuation_token)
           response == ListObjectsV2(pages, token)
       IN  /\ list_requests' = Append(list_requests, token)
           /\ list_responses' = Append(list_responses, response)
           /\ objects' = extended(objects, response)
           /\ IF last_page(response)
              THEN /\ all_objects' = objects'
                   /\ pc' = "listed"
                   /\ UNCHANGED continuation_token
              ELSE /\ continuation_token' = next_token(response)
                   /\ UNCHANGED <<all_objects, pc>>
    /\ UNCHANGED <<args, images_only, dry_run, pages, bucket,
                   objects_to_delete, i, total_deleted, typed,
                   delete_requests, batch_outcomes, confirmed_deletions,
                   failed_batches, reports>>

\* One iteration whose request fails with a ClientError.
ListClientError ==
    /\ pc = "listing"
    /\ Len(list_requests) < MaxListRequests
    /\ list_requests' = Append(list_requests, RequestToken(continuation_token))
    /\ reports' = reports \cup {"error listing objects"}
    /\ all_objects' = list_error_result(objects)
    /\ pc' = "listed"
    /\ UNCHANGED <<args, images_only, dry_run, pages, bucket,
                   continuation_token, objects, list_responses,
                   objects_to_delete, i, total_deleted, typed,
                   delete_requests, batch_outcomes, confirmed_deletions,
                   failed_batches>>

\* One iteration whose request raises another exception: it leaves
\* list_all_objects and clean_bucket and reaches main's handlers.
ListRaises ==
    /\ pc = "listing"
    /\ Len(list_requests) < MaxListRequests
    /\ list_requests' = Append(list_requests, RequestToken(continuation_token))
    /\ \E e \in EscapingErrors : reports' = reports \cup {main_report(e)}
    /\ pc' = "halted"
    /\ UNCHANGED <<args, images_only, dry_run, pages, bucket,
                   continuation_token, objects, list_responses, all_objects,
                   objects_to_delete, i, total_deleted, typed,
                   delete_requests, batch_outcomes, confirmed_deletions,
                   failed_batches>>

(* ---------------------------- clean_bucket ----------------------------- *)

\* "if not all_objects: ... return"
BucketEmpty ==
    /\ pc = "listed"
    /\ all_objects = <<>>
    /\ reports' = reports \cup {"bucket is already empty"}
    /\ pc' = "done"
    /\ UNCHANGED <<args, images_only, dry_run, pages, bucket,
                   continuation_token, objects, list_requests, list_responses,
                   all_objects, objects_to_delete, i, total_deleted, typed,
                   delete_requests, batch_outcomes, confirmed_deletions,
                   failed_batches>>

\* selected as it would be ignoring images_only
selected_unfiltered(objs, only_images) == objs

\* "self.filter_images(all_objects) if images_only else all_objects"
selected(objs, only_images) ==
    IF only_images THEN filter_images(objs) ELSE objs

SelectObjects ==
    /\ pc = "listed"
    /\ all_objects # <<>>
    /\ objects_to_delete' = selected(all_objects, images_only)
    /\ pc' = "selected"
    /\ UNCHANGED <<args, images_only, dry_run, pages, bucket,
                   continuation_token, objects, list_requests, list_responses,
                   all_objects, i, total_deleted, typed, delete_requests,
                   batch_outcomes, confirmed_deletions, failed_batches,
                   reports>>

\* "if not objects_to_delete: ... return"
NoMatching ==
    /\ pc = "selected"
    /\ objects_to_delete = <<>>
    /\ reports' = reports \cup {"no matching objects"}
    /\ pc' = "done"
    /\ UNCHANGED <<args, images_only, dry_run, pages, bucket,
                   continuation_token, objects, list_requests, list_responses,
                   all_objects, objects_to_delete, i, total_deleted, typed,
                   delete_requests, batch_outcomes, confirmed_deletions,
                   failed_batches>>

\* The preview ("Objects to delete (n): ...").
Preview ==
    /\ pc = "selected"
    /\ objects_to_delete # <<>>
    /\ reports' = reports \cup {"objects to delete"}
    /\ pc' = "previewed"
    /\ UNCHANGED <<args, images_only, dry_run, pages, bucket,
                   continuation_token, objects, list_requests, list_responses,
                   all_objects, objects_to_delete, i, total_deleted, typed,
                   delete_requests, batch_outcomes, confirmed_deletions,
                   failed_batches>>

\* stops_before_deleting as it would be without the dry-run return
never_stops(dry) == FALSE

\* "if dry_run: ... return"
stops_before_deleting(dry) == dry

DryRun ==
    /\ pc = "previewed"
    /\ stops_before_deleting(dry_run)
    /\ reports' = reports \cup {"dry run"}
    /\ pc' = "done"
    /\ UNCHANGED <<args, images_only, dry_run, pages, bucket,
                   continuation_token, objects, list_requests, list_responses,
                   all_objects, objects_to_delete, i, total_deleted, typed,
                   delete_requests, batch_outcomes, confirmed_deletions,
                   failed_batches>>

\* The prompt, the operator's input, and "if confirm != 'DELETE': return".
Confirm ==
    /\ pc = "previewed"
    /\ ~stops_before_deleting(dry_run)
    /\ \E t \in Inputs :
        /\ typed' = t
        /\ IF confirmed_by(t)
           THEN /\ pc' = "deleting"
                /\ i' = 0
                /\ total_deleted' = 0
                /\ UNCHANGED reports
           ELSE /\ pc' = "done"
                /\ reports' = reports \cup {"operation cancelled"}
                /\ UNCHANGED <<i, total_deleted>>
    /\ UNCHANGED <<args, images_only, dry_run, pages, bucket,
                   continuation_token, objects, list_requests, list_responses,
                   all_objects, objects_to_delete, delete_requests,
                   batch_outcomes, confirmed_deletions, failed_batches>>

(* ------------------- delete loop, delete_objects_batch ----------------- *)

\* "batch = objects_to_delete[i:i + batch_size]"
batch_at(objs, start) == Slice(objs, start, start + batch_size)

\* the batch number printed: "i//batch_size + 1"
batch_number(start) == (start \div batch_size) + 1

\* The store's answer to delete_objects with 'Quiet': False: every key
\* named is listed under 'Deleted' or under 'Errors'.
DeleteResponses(batch) ==
    { [Deleted |-> Range(batch) \ E, Errors |-> E] : E \in SUBSET Range(batch) }

\* delete_objects_batch's return value for a response:
\* "if 'Errors' in response and response['Errors']: ... return False"
\* and "return True" otherwise.
batch_succeeded(response) == response.Errors = {}

\* "if self.delete_objects_batch(batch): total_deleted += len(batch)"
counted(total, batch, ok) == IF ok THEN total + Len(batch) ELSE total

\* One iteration of the for loop whose delete request the store answers.
\* (range(0, len, batch_size) never yields an empty slice, so
\* delete_objects_batch's "if not objects: return True" is not taken.)
DeleteBatch ==
    /\ pc = "deleting"
    /\ i < Len(objects_to_delete)
    /\ LET batch == batch_at(objects_to_delete, i)
       IN  /\ batch # <<>>
           /\ delete_requests' = Append(delete_requests, batch)
           /\ \E response \in DeleteResponses(batch) :
                LET ok == batch_succeeded(response)
                IN  /\ bucket' = bucket \ response.Deleted
                    /\ confirmed_deletions' =
                           confirmed_deletions + Cardinality(response.Deleted)
                    /\ batch_outcomes' =
                           Append(batch_outcomes,
                                  IF ok THEN "deleted" ELSE "errors")
                    /\ total_deleted' = counted(total_deleted, batch, ok)
                    /\ failed_batches' =
                           IF ok THEN failed_batches
                           ELSE failed_batches \cup {batch_number(i)}
                    /\ reports' =
                           IF ok THEN reports
                           ELSE reports \cup {"some deletions failed"}
    /\ i' = i + batch_size
    /\ UNCHANGED <<pc, args, images_only, dry_run, pages, continuation_token,
                   objects, list_requests, list_responses, all_objects,
                   objects_to_delete, typed>>

\* One iteration whose delete request fails with a ClientError:
\* delete_objects_batch reports it and returns False.
DeleteClientError ==
    /\ pc = "deleting"
    /\ i < Len(objects_to_delete)
    /\ LET batch == batch_at(objects_to_delete, i)
       IN  /\ batch # <<>>
           /\ delete_requests' = Append(delete_requests, batch)
           /\ total_deleted' = counted(total_deleted, batch, FALSE)
    /\ batch_outcomes' = Append(batch_outcomes, "client error")
    /\ failed_batches' = failed_batches \cup {batch_number(i)}
    /\ reports' = reports \cup {"error deleting batch"}
    /\ i' = i + batch_size
    /\ UNCHANGED <<pc, args, images_only, dry_run, pages, bucket,
                   continuation_token, objects, list_requests, list_responses,
                   all_objects, objects_to_delete, typed, confirmed_deletions>>

\* One iteration whose delete request raises another exception: it leaves
\* delete_objects_batch and clean_bucket and reaches main's handlers.
DeleteRaises ==
    /\ pc = "deleting"
    /\ i < Len(objects_to_delete)
    /\ LET batch == batch_at(objects_to_delete, i)
       IN  /\ batch # <<>>
           /\ delete_requests' = Append(delete_requests, batch)
    /\ batch_outcomes' = Append(batch_outcomes, "raised")
    /\ \E e \in EscapingErrors : reports' = reports \cup {main_report(e)}
    /\ pc' = "halted"
    /\ UNCHANGED <<args, images_only, dry_run, pages, bucket,
                   continuation_token, objects, list_requests, list_responses,
                   all_objects, objects_to_delete, i, total_deleted, typed,
                   confirmed_deletions, failed_batches>>

\* The loop is over: "Cleanup completed! Deleted {total_deleted} objects."
Finish ==
    /\ pc = "deleting"
    /\ i >= Len(objects_to_delete)
    /\ reports' = reports \cup {"cleanup completed"}
    /\ pc' = "done"
    /\ UNCHANGED <<args, images_only, dry_run, pages, bucket,
                   continuation_token, objects, list_requests, list_responses,
                   all_objects, objects_to_delete, i, total_deleted, typed,
                   delete_requests, batch_outcomes, confirmed_deletions,
                   failed_batches>>

(* ---------------------------- specification ---------------------------- *)

Next ==
    \/ Main
    \/ ListPage
    \/ ListClientError
    \/ ListRaises
    \/ BucketEmpty
    \/ SelectObjects
    \/ NoMatching
    \/ Preview
    \/ DryRun
    \/ Confirm
    \/ DeleteBatch
    \/ DeleteClientError
    \/ DeleteRaises
    \/ Finish

Spec == Init /\ [][Next]_vars

\* Every step of the script is taken once it can be: the run is one
\* sequential thread and each request returns or raises.
FairSpec == Spec /\ WF_vars(Next)

(* ------------------------------ properties ----------------------------- *)

\* The keys the bucket held when the run started (pages never changes).
InitialBucket == Range(Flatten(pages))

RunOver == pc \in {"done", "halted"}

\* list_all_objects has returned to clean_bucket (with a listing or with []).
ListReturned ==
    /\ pc \notin {"main", "listing"}
    /\ ~(pc = "halted" /\ delete_requests = <<>>)

\* A list request got no response: it failed.
ListFailed == Len(list_requests) > Len(list_responses)

\* ceil(n / b)
CeilDiv(n, b) == (n + b - 1) \div b

\* The operator was prompted and the typed text passed the gate of the code.
Accepted == typed # NotPrompted /\ confirmed_by(typed)

TypeOK ==
    /\ pc \in {"main", "listing", "listed", "selected", "previewed",
               "deleting", "done", "halted"}
    /\ bucket \subseteq InitialBucket
    /\ Len(batch_outcomes) = Len(delete_requests)
    /\ Len(list_responses) <= Len(list_requests)
    /\ Len(list_requests) <= Len(pages)

\* C1: a run with dry_run = True never issues a delete request and leaves
\* the bucket as it was, whatever images_only, the bucket's content and the
\* number of listing pages.
C1_DryRunNeverDeletes ==
    (pc # "main" /\ dry_run) =>
        /\ delete_requests = <<>>
        /\ bucket = InitialBucket
        /\ typed = NotPrompted

C1_Witness ==
    /\ pc = "done"
    /\ dry_run
    /\ images_only
    /\ "dry run" \in reports
    /\ Len(list_requests) >= 2
    /\ Len(objects_to_delete) >= 2

\* C2 as stated: a delete request is issued only after the operator typed
\* exactly 'DELETE'; any other input ends the run with no delete request,
\* the bucket unchanged and a cancellation report.
C2_ExactLiteralOnly ==
    /\ delete_requests # <<>> => typed = DELETE
    /\ (typed # NotPrompted /\ typed # DELETE) =>
           /\ pc = "done"
           /\ delete_requests = <<>>
           /\ bucket = InitialBucket
           /\ "operation cancelled" \in reports

\* C2 as amended: a delete request is issued only after the operator typed
\* text that is 'DELETE' once its leading and trailing whitespace is
\* removed; any other input ends the run with no delete request, the bucket
\* unchanged and a cancellation report.
C2_StrippedLiteralOnly ==
    /\ delete_requests # <<>> =>
           (~dry_run /\ typed # NotPrompted /\ strip(typed) = DELETE)
    /\ (typed # NotPrompted /\ strip(typed) # DELETE) =>
           /\ pc = "done"
           /\ delete_requests = <<>>
           /\ bucket = InitialBucket
           /\ "operation cancelled" \in reports

C2_Witness ==
    /\ pc = "done"
    /\ typed = lower(DELETE)
    /\ "operation cancelled" \in reports
    /\ Len(objects_to_delete) > batch_size
    /\ delete_requests = <<>>

\* C3: once the run is over after an accepted confirmation, the N objects
\* to delete were named in exactly ceil(N / batch_size) delete requests of
\* 1..batch_size keys each, every object in exactly one of them.
C3_ExactPartition ==
    (RunOver /\ Accepted) =>
        /\ Len(delete_requests) = CeilDiv(Len(objects_to_delete), batch_size)
        /\ \A k \in 1..Len(delete_requests) :
               Len(delete_requests[k]) \in 1..batch_size
        /\ Flatten(delete_requests) = objects_to_delete
        /\ Cardinality(Range(Flatten(delete_requests)))
               = Len(Flatten(delete_requests))

\* The part of C3 that holds of every run: the requests issued so far are
\* the first chunks of the partition, in order, and a loop that runs to its
\* end has issued them all.
PartitionPrefix ==
    /\ \A k \in 1..Len(delete_requests) :
           delete_requests[k] =
               Slice(objects_to_delete, (k - 1) * batch_size, k * batch_size)
    /\ \A k \in 1..Len(delete_requests) :
           Len(delete_requests[k]) \in 1..batch_size
    /\ "cleanup completed" \in reports =>
           /\ Len(delete_requests)
                  = CeilDiv(Len(objects_to_delete), batch_size)
           /\ Flatten(delete_requests) = objects_to_delete

\* C4: a delete request that fails in transport does not abort the run: the
\* batch is reported as failed, every later batch is still attempted and
\* the run reaches the final tally report.
C4_FailureDoesNotAbort ==
    (RunOver /\ \E k \in 1..Len(batch_outcomes) :
                    batch_outcomes[k] \in {"client error", "raised"}) =>
        /\ \A k \in 1..Len(batch_outcomes) :
               batch_outcomes[k] \in {"client error", "raised"}
                   => k \in failed_batches
        /\ Len(delete_requests) = CeilDiv(Len(objects_to_delete), batch_size)
        /\ "cleanup completed" \in reports

\* The part of C4 that holds: a delete request that fails with a
\* ClientError is reported as failed, and the loop goes on.
ClientErrorDoesNotAbort ==
    /\ \A k \in 1..Len(batch_outcomes) :
           batch_outcomes[k] = "client error" => k \in failed_batches
    /\ (pc = "done" /\ Accepted) =>
           /\ Len(delete_requests)
                  = CeilDiv(Len(objects_to_delete), batch_size)
           /\ "cleanup completed" \in reports

\* C5: when no list request fails, list_all_objects returns the
\* concatenation of the pages the store serves (as many entries as the
\* pages hold together), each page is requested once, and every request
\* after the first carries the token the previous response returned.
C5_ListingComplete ==
    /\ \A k \in 2..Len(list_requests) :
           /\ list_requests[k] # None
           /\ list_requests[k] = list_responses[k - 1].NextContinuationToken
    /\ \A j, k \in 1..Len(list_requests) :
           j # k => list_requests[j] # list_requests[k]
    /\ (ListReturned /\ ~ListFailed) =>
           /\ all_objects = Flatten(pages)
           /\ Len(all_objects) = SumLen(pages)
           /\ Len(list_requests) = Len(pages)
           /\ list_requests[1] = None

C5_Witness ==
    /\ ListReturned
    /\ ~ListFailed
    /\ Len(pages) = 3
    /\ \A k \in 1..3 : pages[k] # <<>>
    /\ Len(all_objects) = MaxKeys + MaxKeys + 1

\* C6: when a list request fails, on the first page or a later one, none of
\* the entries of earlier pages reaches clean_bucket, the error is
\* reported, and the run ends without a prompt and without a delete
\* request.
C6_ListFailureAborts ==
    ListFailed =>
        /\ pc \in {"listed", "done", "halted"}
        /\ all_objects = <<>>
        /\ objects_to_delete = <<>>
        /\ reports \cap {"error listing objects", "credentials not found",
                         "unexpected error"} # {}
        /\ typed = NotPrompted
        /\ delete_requests = <<>>
        /\ bucket = InitialBucket

C6_Witness ==
    /\ ListFailed
    /\ pc = "done"
    /\ ~dry_run
    /\ Len(list_requests) = 3
    /\ objects # <<>>
    /\ "error listing objects" \in reports

\* C7: when the listing is empty, or images_only is set and no listed key
\* is an image, the run ends with a success report, without a prompt and
\* without a delete request, in dry-run mode and otherwise.
C7_NothingToDelete ==
    (ListReturned /\ (all_objects = <<>>
                      \/ (images_only /\ filter_images(all_objects) = <<>>))) =>
        /\ pc \in {"listed", "selected", "done"}
        /\ typed = NotPrompted
        /\ delete_requests = <<>>
        /\ bucket = InitialBucket
        /\ "operation cancelled" \notin reports
        /\ pc = "done" =>
               reports \cap {"bucket is already empty",
                             "no matching objects"} # {}

C7_Witness ==
    /\ pc = "done"
    /\ images_only
    /\ ~dry_run
    /\ Len(all_objects) >= 2
    /\ "no matching objects" \in reports

\* C8: the count of the final report is the number of keys the store
\* confirmed as deleted over all batches.
C8_TallyIsConfirmedDeletions ==
    "cleanup completed" \in reports => total_deleted = confirmed_deletions

\* C9 (safety part): the loop stops exactly at a response that signals no
\* more pages, and after a response that signals more pages the next request
\* carries the token of that response (never the first page again).
C9_StopsAtLastPage ==
    /\ \A k \in 1..Len(list_responses) :
           IF list_responses[k].IsTruncated
           THEN \/ Len(list_requests) = k /\ pc = "listing"
                \/ /\ Len(list_requests) > k
                   /\ list_requests[k + 1] # None
                   /\ list_requests[k + 1]
                          = list_responses[k].NextContinuationToken
           ELSE Len(list_requests) = k /\ pc # "listing"
    /\ pc = "listing" =>
           (list_responses = <<>>
            \/ list_responses[Len(list_responses)].IsTruncated)

\* C9: the listing loop stops exactly when the store signals the last page,
\* carries the store's token forward otherwise, and so terminates.
C9_ListingTerminates ==
    /\ []C9_StopsAtLastPage
    /\ <>(pc \notin {"main", "listing"})

C9_Witness ==
    /\ pc = "listed"
    /\ ~ListFailed
    /\ Len(list_requests) = 3
    /\ list_requests[3] = TokenOf(3)

\* The entries of the responses the run's list requests received.
list_responses_contents ==
    [k \in 1..Len(list_responses) |-> list_responses[k].Contents]

\* The recognized image suffixes, case-insensitively (stated apart from
\* filter_images).
EndsWithImageExtension(key) ==
    \E ext \in image_extensions :
        /\ Len(key) >= Len(ext)
        /\ \A n \in 1..Len(ext) :
               lower_char(key[Len(key) - Len(ext) + n]) = ext[n]

\* C10: every key named in a delete request was returned by the run's
\* listing and, with images_only, ends with an image extension; every
\* other object of the bucket is left in place.
C10_OnlyListedSelectedKeys ==
    /\ \A k \in 1..Len(delete_requests) :
           \A key \in Range(delete_requests[k]) :
               /\ key \in Range(all_objects)
               /\ key \in Range(Flatten(list_responses_contents))
               /\ images_only => EndsWithImageExtension(key)
    /\ \A key \in InitialBucket \ bucket :
           /\ key \in Range(Flatten(delete_requests))
           /\ images_only => EndsWithImageExtension(key)

C10_Witness ==
    /\ pc = "done"
    /\ images_only
    /\ delete_requests # <<>>
    /\ bucket # InitialBucket
    /\ bucket # {}

====
